---- MODULE Spec2Model ----
(***************************************************************************)
(* Model of the users API: the route handlers (routes/user_routes.rs), the *)
(* controller (controllers/user_controller.rs), the service                *)
(* (services/user_service.rs), the repository                              *)
(* (repository/user_repository.rs) and the error translation              *)
(* (errors/app_error.rs, errors/api_error.rs, errors/responder.rs).        *)
(*                                                                         *)
(* Strings that the code inspects (name, email) are sequences of chars,    *)
(* each char its Unicode scalar value ('@' is 64); dates are day numbers;  *)
(* the users table is the sequence of its rows in insertion order.         *)
(* Every await on the connection                                           *)
(* pool is a suspension point, so a request is a small process whose steps *)
(* are separated by its storage calls.                                     *)
(***************************************************************************)
EXTENDS Integers, Sequences, FiniteSets, TLC

\* ------------------------------------------------------------------ bounds
MaxUsers == 2      \* rows the table may hold in the explored runs

Reqs == {"r1", "r2"}                      \* requests served concurrently
Dates == {1, 2}                           \* day numbers; the clock runs over them
Names == {<<>>, <<12288, 13>>, <<32, 66, 32>>}      \* "", U+3000 CR, " B "
Emails == {<<97, 64, 120>>, <<64, 98>>, <<97, 120>>}  \* "a@x", "@b", "ax"
GetIds == {-5, 0} \cup (1..(MaxUsers + 1))
DriverErrs == {"pool timed out", "connection refused"}
DuplicateEntry == "Duplicate entry for key 'users.email'"
NewUsers == [name : Names, email : Emails, birth_date : Dates]

None == [some |-> FALSE]
Some(v) == [some |-> TRUE, val |-> v]

\* ------------------------------------------------------- integer widths
\* A u64 is kept as q * 2^31 + lo with lo in 0..2^31-1, so that every value
\* of last_insert_id() can be written down.
U64(q, lo) == [q |-> q, lo |-> lo]

U64Succ(u) ==
    IF u.lo = 2147483647 THEN U64(u.q + 1, 0) ELSE U64(u.q, u.lo + 1)

\* `as i32` on a u64: keep the low 32 bits, read as two's complement.
\* Bit 31 is the parity of q.
AsI32(u) == IF u.q % 2 = 1 THEN (u.lo - 2147483647) - 1 ELSE u.lo

\* an i32 bound to a `?` of a statement, as the number the server compares
BindI32(id) == U64(0, id)

\* a panic of the handler's task: the request ends with no AppError
Panicked == [panics |-> "out of range integral type conversion attempted"]
IsPanic(x) == "panics" \in DOMAIN x

\* i32::try_from on the column value
FitsI32(v) == v.q = 0

\* row.get::<i32>("id"): the column value when it fits an i32; Row::get
\* panics on a value it cannot decode
GetI32(v) == IF FitsI32(v) THEN v.lo ELSE Panicked

\* ------------------------------------------------------------ strings
\* the characters with the Unicode White_Space property: U+0009..U+000D,
\* U+0020, U+0085, U+00A0, U+1680, U+2000..U+200A, U+2028, U+2029, U+202F,
\* U+205F, U+3000
WhiteSpace ==
    (9..13) \cup {32, 133, 160, 5760} \cup (8192..8202)
    \cup {8232, 8233, 8239, 8287, 12288}

\* char::is_whitespace
IsWhitespace(c) == c \in WhiteSpace

RECURSIVE TrimStart(_)
TrimStart(s) ==
    IF s # <<>> /\ IsWhitespace(Head(s)) THEN TrimStart(Tail(s)) ELSE s

RECURSIVE TrimEnd(_)
TrimEnd(s) ==
    IF s # <<>> /\ IsWhitespace(s[Len(s)])
    THEN TrimEnd(SubSeq(s, 1, Len(s) - 1))
    ELSE s

\* str::trim
Trim(s) == TrimEnd(TrimStart(s))

\* str::contains(char)
Contains(s, c) == \E i \in 1..Len(s) : s[i] = c

\* ------------------------------------------------------------ AppError
ValidationError(errors) == [kind |-> "ValidationError", errors |-> errors]
BusinessError(msg) == [kind |-> "BusinessError", msg |-> msg]
NotFoundError(msg) == [kind |-> "NotFoundError", msg |-> msg]
InternalError(msg) == [kind |-> "InternalError", msg |-> msg]

Ok(v) == [ok |-> TRUE, val |-> v]
Err(e) == [ok |-> FALSE, err |-> e]

\* ------------------------------------------------------------ ApiError
validation(msg) ==
    [status |-> 400, message |-> "Erro de validação", cause |-> <<msg>>]

not_found(msg) ==
    [status |-> 404, message |-> "Recurso nao encontrado", cause |-> <<msg>>]

business(msg) ==
    [status |-> 409, message |-> "Regra de negocio", cause |-> <<msg>>]

internal(msg, detail) ==
    [status |-> 500, message |-> msg, cause |-> <<detail>>]

\* the arms of From<AppError> that type-check: the ValidationError arm hands
\* a Vec<String> to validation(msg: &str) and has no value
Converts(err) == err.kind # "ValidationError"

\* impl From<AppError> for ApiError, on the arms that type-check
ApiErrorFrom(err) ==
    CASE err.kind = "BusinessError" -> business(err.msg)
      [] err.kind = "NotFoundError" -> not_found(err.msg)
      [] err.kind = "InternalError" -> internal("Erro interno", err.msg)

\* rocket::http::Status::from_code: the registered status codes
StatusCodes ==
    {100, 101, 102, 200, 201, 202, 203, 204, 205, 206, 207, 208, 226,
     300, 301, 302, 303, 304, 305, 307, 308,
     400, 401, 402, 403, 404, 405, 406, 407, 408, 409, 410, 411, 412, 413,
     414, 415, 416, 417, 418, 421, 422, 426, 428, 429, 431, 451,
     500, 501, 502, 503, 504, 505, 506, 507, 508, 510, 511}

\* impl Responder for ApiError: the JSON body with the status of the error
RespondApiError(e) ==
    [status |-> IF e.status \in StatusCodes THEN e.status ELSE 500,
     body |-> e]

\* a variant that answers with no content
RespondJson_NoContent(user) == [status |-> 204, body |-> <<>>]

\* Ok(Json(user)): the Json responder answers 200 with the serialized value
RespondJson(user) == [status |-> 200, body |-> user]

\* no response
NoResp == [status |-> 0, body |-> <<>>]

\* the route handlers: `controller(...).await?` then `Ok(Json(..))`; an
\* error whose conversion has no value gets no response
RouteCreateUser(res) ==
    IF res.ok THEN RespondJson(res.val)
    ELSE IF Converts(res.err) THEN RespondApiError(ApiErrorFrom(res.err))
    ELSE NoResp

RouteGetUser(res) ==
    IF res.ok THEN RespondJson(res.val)
    ELSE IF Converts(res.err) THEN RespondApiError(ApiErrorFrom(res.err))
    ELSE NoResp

\* ------------------------------------------------------------ service rules
\* a variant that returns at the first violated rule
ValidateNewUser_FirstOnly(user, now) ==
    IF Trim(user.name) = <<>> THEN <<"Nome não pode estar vazio">>
    ELSE IF ~Contains(user.email, 64) THEN <<"Email inválido: deve conter '@'">>
    ELSE IF user.birth_date > now
         THEN <<"Data de nascimento não pode estar no futuro">>
         ELSE <<>>

\* a variant without the rule on the name
ValidateNewUser_NoNameRule(user, now) ==
    LET e2 == IF ~Contains(user.email, 64)
              THEN <<"Email inválido: deve conter '@'">> ELSE <<>>
        e3 == IF user.birth_date > now
              THEN <<"Data de nascimento não pode estar no futuro">> ELSE <<>>
    IN  e2 \o e3

\* UserService::create_user, the three field rules, every one evaluated
ValidateNewUser(user, now) ==
    LET e1 == IF Trim(user.name) = <<>>
              THEN <<"Nome não pode estar vazio">> ELSE <<>>
        e2 == IF ~Contains(user.email, 64)
              THEN <<"Email inválido: deve conter '@'">> ELSE <<>>
        e3 == IF user.birth_date > now
              THEN <<"Data de nascimento não pode estar no futuro">> ELSE <<>>
    IN  e1 \o e2 \o e3

\* a variant that refuses negative identifiers only
InvalidId_NegativeOnly(id) == id < 0

\* UserService::get_user, the guard on the identifier
InvalidId(id) == id <= 0

\* a variant that reports an absent row as a technical failure
GetUserOutcome_AbsentInternal(found) ==
    IF found.some
    THEN Ok(found.val)
    ELSE Err(InternalError("Usuário não encontrado"))

\* UserService::get_user, the match on the repository's answer
GetUserOutcome(found) ==
    IF found.some
    THEN Ok(found.val)
    ELSE Err(NotFoundError("Usuário não encontrado"))

\* ------------------------------------------------------------ repository
\* a variant that reads the name and email columns into each other's field
RowToUser_ColumnsSwapped(row) ==
    IF FitsI32(row.id)
    THEN [id |-> GetI32(row.id), name |-> row.email, email |-> row.name,
          birth_date |-> row.birth_date]
    ELSE Panicked

\* row.map(|row| User { id: row.get("id"), ... })
RowToUser(row) ==
    IF FitsI32(row.id)
    THEN [id |-> GetI32(row.id), name |-> row.name, email |-> row.email,
          birth_date |-> row.birth_date]
    ELSE Panicked

\* Ok(row.map(..)) on the row fetch_optional returned
MapRow(row) ==
    LET user == RowToUser(row)
    IN  IF IsPanic(user) THEN Panicked ELSE Some(user)

\* a variant whose statement compares the name column
FindByEmail_ByName(table, email) ==
    LET hits == {i \in 1..Len(table) : table[i].name = email}
    IN  IF hits = {} THEN None
        ELSE MapRow(table[CHOOSE i \in hits : \A j \in hits : i <= j])

\* a variant whose lookup never matches
FindByEmail_NeverFound(table, email) == None

\* SELECT ... WHERE email = ? with fetch_optional: the first matching row
FindByEmail(table, email) ==
    LET hits == {i \in 1..Len(table) : table[i].email = email}
    IN  IF hits = {} THEN None
        ELSE MapRow(table[CHOOSE i \in hits : \A j \in hits : i <= j])

\* SELECT ... WHERE id = ? with fetch_optional
FindById(table, id) ==
    LET hits == {i \in 1..Len(table) : table[i].id = BindI32(id)}
    IN  IF hits = {} THEN None
        ELSE MapRow(table[CHOOSE i \in hits : \A j \in hits : i <= j])

\* the row written by INSERT INTO users (name, email, birth_date)
InsertedRow(newId, user) ==
    [id |-> newId, name |-> user.name, email |-> user.email,
     birth_date |-> user.birth_date]

\* a variant with REPLACE INTO: a row with the same email is deleted first
InsertInto_Replace(table, row) ==
    Append(SelectSeq(table, LAMBDA old : old.email # row.email), row)

\* a variant with ON DUPLICATE KEY UPDATE: a row with the same email is
\* overwritten in place and keeps its id
InsertInto_Upsert(table, row) ==
    IF \E i \in 1..Len(table) : table[i].email = row.email
    THEN [i \in 1..Len(table) |->
             IF table[i].email = row.email
             THEN [row EXCEPT !.id = table[i].id]
             ELSE table[i]]
    ELSE Append(table, row)

\* INSERT INTO users ...: the table gains the row, nothing else changes
\* a variant with INSERT IGNORE: no row is added when the email is stored
InsertInto_Ignore(table, row) ==
    IF \E i \in 1..Len(table) : table[i].email = row.email
    THEN table
    ELSE Append(table, row)

InsertInto(table, row) == Append(table, row)

\* a variant that returns the name trimmed
CreatedUser_TrimmedName(lastInsertId, user) ==
    [id |-> AsI32(lastInsertId), name |-> Trim(user.name), email |-> user.email,
     birth_date |-> user.birth_date]

\* the User built from rec.last_insert_id() and the request
CreatedUser(lastInsertId, user) ==
    [id |-> AsI32(lastInsertId), name |-> user.name, email |-> user.email,
     birth_date |-> user.birth_date]

\* a variant of the insert's map_err that reports a business error
InsertFailure_Business(err) == BusinessError("Erro ao inserir usuário no banco: " \o err)

\* a variant of the id lookup's map_err that reports an absent resource
GetUserFailure_NotFound(err) == NotFoundError("Erro ao acessar o banco: " \o err)

\* .map_err(|err| AppError::InternalError(format!(...)))
InsertFailure(err) == InternalError("Erro ao inserir usuário no banco: " \o err)
GetUserFailure(err) == InternalError("Erro ao acessar o banco: " \o err)
GetByEmailFailure(err) == InternalError("Erro ao buscar email: " \o err)

\* ------------------------------------------------------------ state
VARIABLES
    users,     \* the users table, rows in insertion order
    autoInc,   \* the table's AUTO_INCREMENT counter: the next generated id
    today,     \* chrono::Utc::now().date_naive()
    pc,        \* per request: where its handler is suspended
    req,       \* per request: the operation and its arguments
    calls,     \* per request: the storage calls it has issued, with outcomes
    result,    \* per request: the service's Result<User, AppError>
    resp,      \* per request: the HTTP response of the route handler
    created,   \* history: every User a create has returned, with its request
    uniqueEmail \* the schema: whether users.email carries a UNIQUE index

vars == <<users, autoInc, today, pc, req, calls, result, resp, created, uniqueEmail>>

NoReq == [op |-> "none"]
NoResult == [ok |-> FALSE, err |-> [kind |-> "none"]]

Init ==
    /\ users = <<>>
    /\ autoInc = U64(0, 1)
    /\ today = 1
    /\ pc = [r \in Reqs |-> "idle"]
    /\ req = [r \in Reqs |-> NoReq]
    /\ calls = [r \in Reqs |-> <<>>]
    /\ result = [r \in Reqs |-> NoResult]
    /\ resp = [r \in Reqs |-> NoResp]
    /\ created = {}
    /\ uniqueEmail = FALSE

\* the same service over a table whose email column carries a UNIQUE index
InitUnique ==
    /\ users = <<>>
    /\ autoInc = U64(0, 1)
    /\ today = 1
    /\ pc = [r \in Reqs |-> "idle"]
    /\ req = [r \in Reqs |-> NoReq]
    /\ calls = [r \in Reqs |-> <<>>]
    /\ result = [r \in Reqs |-> NoResult]
    /\ resp = [r \in Reqs |-> NoResp]
    /\ created = {}
    /\ uniqueEmail = TRUE

\* AUTO_INCREMENT values at the edges of the i32 range: 2^31 - 1 and 2^32 - 1
WideStarts == {U64(0, 2147483647), U64(1, 2147483647)}

\* the same service over a table whose counter has reached those values
InitWide ==
    /\ users = <<>>
    /\ autoInc \in WideStarts
    /\ today = 1
    /\ pc = [r \in Reqs |-> "idle"]
    /\ req = [r \in Reqs |-> NoReq]
    /\ calls = [r \in Reqs |-> <<>>]
    /\ result = [r \in Reqs |-> NoResult]
    /\ resp = [r \in Reqs |-> NoResp]
    /\ created = {}
    /\ uniqueEmail = FALSE

\* history only: what the table held when a request looked
EmailHeld(email) == \E i \in 1..Len(users) : users[i].email = email
IdHeld(id) == \E i \in 1..Len(users) : users[i].id.q = 0 /\ users[i].id.lo = id

InFlightCreates == {r \in Reqs : pc[r] \in {"create_lookup", "create_insert"}}

\* the clock advances
Tick ==
    /\ today + 1 \in Dates
    /\ today' = today + 1
    /\ UNCHANGED <<users, autoInc, pc, req, calls, result, resp, created, uniqueEmail>>

\* POST /users up to the first await: the field rules
CreateUserStart(r, user) ==
    /\ pc[r] = "idle"
    /\ LET errors == ValidateNewUser(user, today)
           res == Err(ValidationError(errors))
       IN  /\ \/ errors # <<>>
              \/ EmailHeld(user.email)
              \/ Len(users) + Cardinality(InFlightCreates) < MaxUsers
           /\ req' = [req EXCEPT ![r] =
                  [op |-> "create", user |-> user, today |-> today,
                   held |-> EmailHeld(user.email)]]
           /\ IF errors # <<>>
              THEN /\ pc' = [pc EXCEPT ![r] = "done"]
                   /\ result' = [result EXCEPT ![r] = res]
                   /\ resp' = [resp EXCEPT ![r] = RouteCreateUser(res)]
              ELSE /\ pc' = [pc EXCEPT ![r] = "create_lookup"]
                   /\ UNCHANGED <<result, resp>>
    /\ UNCHANGED <<users, autoInc, today, calls, created, uniqueEmail>>

\* a variant that issues the email lookup again when it fails
CreateUserLookup_Retry(r) ==
    /\ pc[r] = "create_lookup"
    /\ \/ \E err \in DriverErrs :
            LET res == Err(GetByEmailFailure(err))
            IN  /\ Len(calls[r]) < 2
                /\ calls' = [calls EXCEPT ![r] =
                       Append(@, [op |-> "get_by_email", out |-> "failed",
                                  ret |-> res])]
                /\ UNCHANGED <<pc, result, resp>>
       \/ LET found == FindByEmail(users, req[r].user.email)
              res == Err(BusinessError("Email já está sendo utilizado"))
          IN  /\ calls' = [calls EXCEPT ![r] =
                     Append(@, [op |-> "get_by_email",
                                out |-> IF found.some THEN "present" ELSE "absent",
                                ret |-> Ok(found),
                                held |-> EmailHeld(req[r].user.email)])]
              /\ IF found.some
                 THEN /\ pc' = [pc EXCEPT ![r] = "done"]
                      /\ result' = [result EXCEPT ![r] = res]
                      /\ resp' = [resp EXCEPT ![r] = RouteCreateUser(res)]
                 ELSE /\ pc' = [pc EXCEPT ![r] = "create_insert"]
                      /\ UNCHANGED <<result, resp>>
    /\ UNCHANGED <<users, autoInc, today, req, created, uniqueEmail>>

\* self.repo.get_by_email(&user.email).await? and the duplicate rule
CreateUserLookup(r) ==
    /\ pc[r] = "create_lookup"
    /\ \/ \E err \in DriverErrs :
            LET res == Err(GetByEmailFailure(err))
            IN  /\ calls' = [calls EXCEPT ![r] =
                       Append(@, [op |-> "get_by_email", out |-> "failed",
                                  ret |-> res])]
                /\ pc' = [pc EXCEPT ![r] = "done"]
                /\ result' = [result EXCEPT ![r] = res]
                /\ resp' = [resp EXCEPT ![r] = RouteCreateUser(res)]
       \/ LET found == FindByEmail(users, req[r].user.email)
              res == Err(BusinessError("Email já está sendo utilizado"))
          IN  IF IsPanic(found)
              THEN /\ calls' = [calls EXCEPT ![r] =
                          Append(@, [op |-> "get_by_email", out |-> "panicked",
                                     ret |-> found,
                                     held |-> EmailHeld(req[r].user.email)])]
                   /\ pc' = [pc EXCEPT ![r] = "panicked"]
                   /\ UNCHANGED <<result, resp>>
              ELSE IF found.some
              THEN /\ calls' = [calls EXCEPT ![r] =
                          Append(@, [op |-> "get_by_email", out |-> "present",
                                     ret |-> Ok(found),
                                     held |-> EmailHeld(req[r].user.email)])]
                   /\ pc' = [pc EXCEPT ![r] = "done"]
                   /\ result' = [result EXCEPT ![r] = res]
                   /\ resp' = [resp EXCEPT ![r] = RouteCreateUser(res)]
              ELSE /\ calls' = [calls EXCEPT ![r] =
                          Append(@, [op |-> "get_by_email", out |-> "absent",
                                     ret |-> Ok(found),
                                     held |-> EmailHeld(req[r].user.email)])]
                   /\ pc' = [pc EXCEPT ![r] = "create_insert"]
                   /\ UNCHANGED <<result, resp>>
    /\ UNCHANGED <<users, autoInc, today, req, created, uniqueEmail>>

\* self.repo.create_user(user).await: the INSERT and the returned User
CreateUserInsert(r) ==
    /\ pc[r] = "create_insert"
    /\ \/ \E err \in DriverErrs :
            LET res == Err(InsertFailure(err))
            IN  /\ calls' = [calls EXCEPT ![r] =
                       Append(@, [op |-> "create_user", out |-> "failed",
                                  why |-> "driver", ret |-> res])]
                /\ result' = [result EXCEPT ![r] = res]
                /\ resp' = [resp EXCEPT ![r] = RouteCreateUser(res)]
                /\ UNCHANGED <<users, autoInc, created>>
       \/ /\ uniqueEmail /\ EmailHeld(req[r].user.email)
          /\ LET res == Err(InsertFailure(DuplicateEntry))
             IN  /\ calls' = [calls EXCEPT ![r] =
                        Append(@, [op |-> "create_user", out |-> "failed",
                                   why |-> "unique", ret |-> res])]
                 /\ result' = [result EXCEPT ![r] = res]
                 /\ resp' = [resp EXCEPT ![r] = RouteCreateUser(res)]
                 /\ UNCHANGED <<users, autoInc, created>>
       \/ /\ ~(uniqueEmail /\ EmailHeld(req[r].user.email))
          /\ LET res == Ok(CreatedUser(autoInc, req[r].user))
             IN  /\ users' = InsertInto(users, InsertedRow(autoInc, req[r].user))
                 /\ autoInc' = U64Succ(autoInc)
                 /\ calls' = [calls EXCEPT ![r] =
                        Append(@, [op |-> "create_user", out |-> "ok",
                                   why |-> "", ret |-> res,
                                   id |-> autoInc,
                                   prior |-> {users[i].id : i \in 1..Len(users)}])]
                 /\ created' = created \cup {[ret |-> res.val, user |-> req[r].user]}
                 /\ result' = [result EXCEPT ![r] = res]
                 /\ resp' = [resp EXCEPT ![r] = RouteCreateUser(res)]
    /\ pc' = [pc EXCEPT ![r] = "done"]
    /\ UNCHANGED <<today, req, uniqueEmail>>

\* GET /users/<id> up to the first await: the guard on the identifier
GetUserStart(r, id) ==
    /\ pc[r] = "idle"
    /\ req' = [req EXCEPT ![r] = [op |-> "get", id |-> id]]
    /\ IF InvalidId(id)
       THEN LET res == Err(ValidationError(
                       <<"O ID do usuário deve ser um número positivo maior que zero">>))
            IN  /\ pc' = [pc EXCEPT ![r] = "done"]
                /\ result' = [result EXCEPT ![r] = res]
                /\ resp' = [resp EXCEPT ![r] = RouteGetUser(res)]
       ELSE /\ pc' = [pc EXCEPT ![r] = "get_fetch"]
            /\ UNCHANGED <<result, resp>>
    /\ UNCHANGED <<users, autoInc, today, calls, created, uniqueEmail>>

\* a variant that drops a failed lookup: the request ends with no outcome
GetUserFetch_DropFailure(r) ==
    /\ pc[r] = "get_fetch"
    /\ \/ /\ pc' = [pc EXCEPT ![r] = "idle"]
          /\ req' = [req EXCEPT ![r] = NoReq]
          /\ UNCHANGED <<calls, result, resp>>
       \/ LET found == FindById(users, req[r].id)
              res == GetUserOutcome(found)
          IN  /\ calls' = [calls EXCEPT ![r] =
                     Append(@, [op |-> "get_user",
                                out |-> IF found.some THEN "present" ELSE "absent",
                                ret |-> Ok(found),
                                held |-> IdHeld(req[r].id)])]
              /\ result' = [result EXCEPT ![r] = res]
              /\ resp' = [resp EXCEPT ![r] = RouteGetUser(res)]
              /\ pc' = [pc EXCEPT ![r] = "done"]
              /\ UNCHANGED req
    /\ UNCHANGED <<users, autoInc, today, created, uniqueEmail>>

\* self.repo.get_user(id).await and the match on its answer
GetUserFetch(r) ==
    /\ pc[r] = "get_fetch"
    /\ \/ \E err \in DriverErrs :
            LET res == Err(GetUserFailure(err))
            IN  /\ calls' = [calls EXCEPT ![r] =
                       Append(@, [op |-> "get_user", out |-> "failed",
                                  ret |-> res])]
                /\ result' = [result EXCEPT ![r] = res]
                /\ resp' = [resp EXCEPT ![r] = RouteGetUser(res)]
       \/ LET found == FindById(users, req[r].id)
              res == GetUserOutcome(found)
          IN  /\ calls' = [calls EXCEPT ![r] =
                     Append(@, [op |-> "get_user",
                                out |-> IF found.some THEN "present" ELSE "absent",
                                ret |-> Ok(found),
                                held |-> IdHeld(req[r].id)])]
              /\ result' = [result EXCEPT ![r] = res]
              /\ resp' = [resp EXCEPT ![r] = RouteGetUser(res)]
    /\ pc' = [pc EXCEPT ![r] = "done"]
    /\ UNCHANGED <<users, autoInc, today, req, created, uniqueEmail>>

\* the response has been sent, or the task has unwound; the worker takes
\* the next request
Finish(r) ==
    /\ pc[r] \in {"done", "panicked"}
    /\ pc' = [pc EXCEPT ![r] = "idle"]
    /\ req' = [req EXCEPT ![r] = NoReq]
    /\ calls' = [calls EXCEPT ![r] = <<>>]
    /\ result' = [result EXCEPT ![r] = NoResult]
    /\ resp' = [resp EXCEPT ![r] = NoResp]
    /\ UNCHANGED <<users, autoInc, today, created, uniqueEmail>>

Next ==
    \/ Tick
    \/ \E r \in Reqs, user \in NewUsers : CreateUserStart(r, user)
    \/ \E r \in Reqs : CreateUserLookup(r)
    \/ \E r \in Reqs : CreateUserInsert(r)
    \/ \E r \in Reqs, id \in GetIds : GetUserStart(r, id)
    \/ \E r \in Reqs : GetUserFetch(r)
    \/ \E r \in Reqs : Finish(r)

Spec == Init /\ [][Next]_vars

\* the table with a UNIQUE index on email
SpecUnique == InitUnique /\ [][Next]_vars

\* the table with its counter at the edge of the i32 range
SpecWide == InitWide /\ [][Next]_vars

\* creates served one at a time: a create is taken only when no other
\* create is between its existence check and its insert
SerialCreateUserStart(r, user) ==
    /\ InFlightCreates = {}
    /\ CreateUserStart(r, user)

NextSerial ==
    \/ Tick
    \/ \E r \in Reqs, user \in NewUsers : SerialCreateUserStart(r, user)
    \/ \E r \in Reqs : CreateUserLookup(r)
    \/ \E r \in Reqs : CreateUserInsert(r)
    \/ \E r \in Reqs, id \in GetIds : GetUserStart(r, id)
    \/ \E r \in Reqs : GetUserFetch(r)
    \/ \E r \in Reqs : Finish(r)

SpecSerial == Init /\ [][NextSerial]_vars

\* every storage call a request awaits returns: the future of a pending
\* get_by_email, create_user or get_user is polled to completion
GatewayReturns ==
    \A r \in Reqs :
        /\ WF_vars(CreateUserLookup(r))
        /\ WF_vars(CreateUserInsert(r))
        /\ WF_vars(GetUserFetch(r))

SpecLive == Init /\ [][Next]_vars /\ GatewayReturns

TypeOK ==
    /\ pc \in [Reqs -> {"idle", "create_lookup", "create_insert", "get_fetch", "done",
                      "panicked"}]
    /\ Len(users) <= MaxUsers
    /\ today \in Dates

\* ------------------------------------------------------------ properties
DoneCreate(r) == pc[r] = "done" /\ req[r].op = "create"
DoneGet(r) == pc[r] = "done" /\ req[r].op = "get"
FailedWith(r, kind) == ~result[r].ok /\ result[r].err.kind = kind
GatewayFailed(r) == \E i \in 1..Len(calls[r]) : calls[r][i].out = "failed"
Inserted(r) ==
    \E i \in 1..Len(calls[r]) :
        calls[r][i].op = "create_user" /\ calls[r][i].out = "ok"

\* the three field rules, stated on the characters and the dates
NameRuleViolated(u) == \A i \in 1..Len(u.name) : u.name[i] \in WhiteSpace
EmailRuleViolated(u) == 64 \notin {u.email[i] : i \in 1..Len(u.email)}
BirthRuleViolated(u, day) == ~(u.birth_date <= day)
RulesPass(u, day) ==
    ~NameRuleViolated(u) /\ ~EmailRuleViolated(u) /\ ~BirthRuleViolated(u, day)

Keep(flag, msg) == IF flag THEN <<msg>> ELSE <<>>
ExpectedMessages(u, day) ==
    Keep(NameRuleViolated(u), "Nome não pode estar vazio")
    \o Keep(EmailRuleViolated(u), "Email inválido: deve conter '@'")
    \o Keep(BirthRuleViolated(u, day), "Data de nascimento não pode estar no futuro")

\* C1: a create request fails with ValidationError exactly when one of the
\* three field rules is violated (a birth date equal to the current date
\* passes), and the error then lists one message per violated rule, in the
\* order name, email, birth date.
C1_ValidationIffRuleViolated ==
    \A r \in Reqs :
        (req[r].op = "create" /\ pc[r] # "idle") =>
            LET u == req[r].user
                day == req[r].today
            IN  /\ (pc[r] = "done" /\ FailedWith(r, "ValidationError"))
                       <=> ~RulesPass(u, day)
                /\ ~RulesPass(u, day) =>
                       /\ pc[r] = "done"
                       /\ result[r].err.errors = ExpectedMessages(u, day)

\* C1 witness: one request was refused with all three messages while
\* another, born on the current date, passed the field rules.
C1_Witness ==
    \E r1, r2 \in Reqs :
        /\ DoneCreate(r1) /\ FailedWith(r1, "ValidationError")
        /\ Len(result[r1].err.errors) = 3
        /\ DoneCreate(r2) /\ result[r2].ok
        /\ req[r2].user.birth_date = req[r2].today

\* C2 (as claimed): no two rows of the users table share an email, also
\* when the existence check and the insert of concurrent creates interleave.
C2_EmailsUnique ==
    \A i, j \in 1..Len(users) :
        i # j => users[i].email # users[j].email

\* C3 (as claimed): a create whose email was in the table when it was issued
\* fails with BusinessError whatever its name and birth date are, and
\* inserts nothing.
C3_Original ==
    \A r \in Reqs :
        (DoneCreate(r) /\ req[r].held) =>
            FailedWith(r, "BusinessError") /\ ~Inserted(r)

\* C3 (amended): a create that passes the three field rules, whose email was
\* in the table when it was issued and whose email lookup does not fail
\* technically, fails with BusinessError whatever its name and birth date
\* are, and inserts nothing.
C3_DuplicateEmailRejected ==
    \A r \in Reqs :
        (/\ req[r].op = "create" /\ pc[r] \in {"create_insert", "done"}
         /\ req[r].held
         /\ RulesPass(req[r].user, req[r].today)
         /\ ~GatewayFailed(r)) =>
            /\ pc[r] = "done"
            /\ FailedWith(r, "BusinessError")
            /\ ~Inserted(r)

\* C3 witness: a request was refused as a duplicate although its name or its
\* birth date differ from the stored row with that email.
C3_Witness ==
    \E r \in Reqs :
        /\ DoneCreate(r) /\ req[r].held /\ FailedWith(r, "BusinessError")
        /\ \E i \in 1..Len(users) :
               /\ users[i].email = req[r].user.email
               /\ users[i].birth_date # req[r].user.birth_date

SameFields(rec, u) ==
    rec.name = u.name /\ rec.email = u.email /\ rec.birth_date = u.birth_date

\* C4: a create request that passes the three field rules, whose email was
\* not in the table when the existence check ran, and none of whose storage
\* calls failed, succeeds; the returned record echoes name, email and birth
\* date, its id is the one storage generated for this insert, and no row
\* persisted before had that id.
C4_CreateReturnsFreshEcho ==
    \A r \in Reqs :
        (/\ DoneCreate(r)
         /\ RulesPass(req[r].user, req[r].today)
         /\ ~GatewayFailed(r)
         /\ \A i \in 1..Len(calls[r]) :
                calls[r][i].op = "get_by_email" => ~calls[r][i].held) =>
            /\ result[r].ok
            /\ SameFields(result[r].val, req[r].user)
            /\ Len(calls[r]) = 2
            /\ calls[r][2].op = "create_user"
            /\ calls[r][2].id = U64(0, result[r].val.id)
            /\ calls[r][2].id \notin calls[r][2].prior
            /\ \E i \in 1..Len(users) :
                   /\ users[i].id = calls[r][2].id
                   /\ SameFields(users[i], req[r].user)

\* C4 witness: a create succeeded while another row was already stored, and
\* its name carries leading and trailing blanks.
C4_Witness ==
    \E r \in Reqs :
        /\ DoneCreate(r) /\ result[r].ok
        /\ Len(users) >= 2
        /\ result[r].val.id = 2
        /\ result[r].val.name = <<32, 66, 32>>

\* C5: once a create has returned a record with id i, every fetch of i that
\* completes afterwards without a technical failure succeeds and returns the
\* name, email and birth date of that create request.
C5_RoundTrip ==
    [][\A r \in Reqs : \A c \in created :
          (/\ pc[r] # "done" /\ pc'[r] = "done"
           /\ req'[r].op = "get" /\ req'[r].id = c.ret.id
           /\ ~(~result'[r].ok /\ result'[r].err.kind = "InternalError")) =>
              /\ result'[r].ok
              /\ SameFields(result'[r].val, c.user)
              /\ result'[r].val.id = c.ret.id]_vars

\* C5 witness: a fetch returned the second created record, whose name
\* carries blanks, unchanged.
C5_Witness ==
    \E r \in Reqs : \E c \in created :
        /\ DoneGet(r) /\ result[r].ok
        /\ c.ret.id = req[r].id /\ c.ret.id = 2
        /\ c.user.name = <<32, 66, 32>>
        /\ SameFields(result[r].val, c.user)

\* C6: a fetch with id <= 0 fails with ValidationError carrying exactly one
\* message, never with NotFoundError, whatever the table holds, and without
\* looking the id up.
C6_NonPositiveIdIsInvalid ==
    \A r \in Reqs :
        (req[r].op = "get" /\ req[r].id <= 0) =>
            /\ pc[r] = "done"
            /\ FailedWith(r, "ValidationError")
            /\ Len(result[r].err.errors) = 1
            /\ calls[r] = <<>>

\* C6 witness: id 0 was refused while the table held a row.
C6_Witness ==
    \E r \in Reqs :
        /\ DoneGet(r) /\ req[r].id = 0 /\ FailedWith(r, "ValidationError")
        /\ Len(users) >= 1

\* C7: a fetch with a positive id whose lookup did not fail technically ends
\* in NotFoundError when the table held no row with that id, and returns
\* that row when it held one.
C7_AbsentIsNotFound ==
    \A r \in Reqs :
        (DoneGet(r) /\ req[r].id > 0 /\ ~GatewayFailed(r)) =>
            /\ Len(calls[r]) = 1 /\ calls[r][1].op = "get_user"
            /\ ~calls[r][1].held => FailedWith(r, "NotFoundError")
            /\ calls[r][1].held =>
                   /\ result[r].ok
                   /\ result[r].val.id = req[r].id
                   /\ \E i \in 1..Len(users) :
                          /\ users[i].id = U64(0, req[r].id)
                          /\ SameFields(result[r].val, users[i])

\* C7 witness: one fetch ended in NotFoundError while the table held another
\* row, and one fetch returned a stored row.
C7_Witness ==
    \E r1, r2 \in Reqs :
        /\ DoneGet(r1) /\ FailedWith(r1, "NotFoundError") /\ Len(users) >= 1
        /\ DoneGet(r2) /\ result[r2].ok

ErrorKinds == {"ValidationError", "BusinessError", "NotFoundError", "InternalError"}

StatusOfKind(kind) ==
    CASE kind = "ValidationError" -> 400
      [] kind = "BusinessError" -> 409
      [] kind = "NotFoundError" -> 404
      [] kind = "InternalError" -> 500

\* C8 (as claimed): every error a create or a fetch ends with is of one of
\* the four kinds and its response carries the status of that kind:
\* ValidationError 400, BusinessError 409, NotFoundError 404, InternalError
\* 500, in the status line and in the body alike.
C8_StatusOfKind ==
    \A r \in Reqs :
        (pc[r] = "done" /\ ~result[r].ok) =>
            /\ result[r].err.kind \in ErrorKinds
            /\ resp[r].status = StatusOfKind(result[r].err.kind)
            /\ resp[r].body.status = StatusOfKind(result[r].err.kind)

\* C9 (as claimed): when a create fails with n validation messages, the cause
\* list of the error body holds those n messages in the same order.
C9_CausesCarried ==
    \A r \in Reqs :
        (DoneCreate(r) /\ FailedWith(r, "ValidationError")) =>
            /\ resp[r] # NoResp
            /\ resp[r].body.cause = result[r].err.errors

\* C10: a successful create answers with a status of the class of 201 (2xx)
\* and the created record as body; a successful fetch answers 200 with the
\* record as body.
C10_SuccessResponses ==
    \A r \in Reqs :
        (pc[r] = "done" /\ result[r].ok) =>
            /\ resp[r].body = result[r].val
            /\ req[r].op = "create" => resp[r].status \div 100 = 201 \div 100
            /\ req[r].op = "get" => resp[r].status = 200

\* C10 witness: a create and a fetch both succeeded and were answered.
C10_Witness ==
    \E r1, r2 \in Reqs :
        /\ DoneCreate(r1) /\ result[r1].ok /\ resp[r1].body.id = 1
        /\ DoneGet(r2) /\ result[r2].ok /\ resp[r2].status = 200

\* the operations a request has issued on storage, in order
CallOps(r) == [i \in 1..Len(calls[r]) |-> calls[r][i].op]
SameRequest(r1, r2) ==
    /\ req[r1].op = req[r2].op
    /\ req[r1].op = "create" => req[r1].user = req[r2].user
    /\ req[r1].op = "get" => req[r1].id = req[r2].id
    /\ CallOps(r1) = CallOps(r2)

\* C11 (as claimed): two technical failures of the same storage call of the
\* same request, whatever the driver's error texts, are answered with the
\* same response: the status, the message and the cause list do not depend
\* on the raw storage error.
C11_InternalBodyGeneric ==
    \A r1, r2 \in Reqs :
        (/\ pc[r1] = "done" /\ pc[r2] = "done"
         /\ FailedWith(r1, "InternalError") /\ FailedWith(r2, "InternalError")
         /\ SameRequest(r1, r2)) =>
            resp[r1] = resp[r2]

\* C12: a technical failure of a storage call ends the request with
\* InternalError (status 500) and nothing else; the failed call is the last
\* one the request issues, so a failed email lookup is followed by no
\* insert, and a failed id lookup never reads as NotFoundError.
C12_FailureIsInternal ==
    \A r \in Reqs :
        GatewayFailed(r) =>
            /\ pc[r] = "done"
            /\ FailedWith(r, "InternalError")
            /\ resp[r].status = 500
            /\ calls[r][Len(calls[r])].out = "failed"
            /\ \A i \in 1..(Len(calls[r]) - 1) : calls[r][i].out # "failed"
            /\ calls[r][1].out = "failed" => Len(calls[r]) = 1

\* C12 witness: one create failed at its email lookup and a fetch failed at
\* its id lookup while the table was empty.
C12_Witness ==
    \E r1, r2 \in Reqs :
        /\ DoneCreate(r1) /\ CallOps(r1) = <<"get_by_email">> /\ GatewayFailed(r1)
        /\ DoneGet(r2) /\ GatewayFailed(r2) /\ users = <<>>

\* C13 (as claimed): when the UNIQUE index on email rejects the insert of a
\* create (another create with the same email was inserted after this one's
\* existence check), the create fails with BusinessError and status 409.
C13_ConstraintIsBusiness ==
    \A r \in Reqs :
        (/\ DoneCreate(r) /\ Len(calls[r]) = 2
         /\ calls[r][2].out = "failed" /\ calls[r][2].why = "unique") =>
            FailedWith(r, "BusinessError") /\ resp[r].status = 409

\* C14 (as claimed): the record a successful create returns has id > 0 and
\* that id is the identifier storage generated for the insert, for every
\* value of the unsigned 64 bit identifier.
C14_IdIsGenerated ==
    \A r \in Reqs :
        (DoneCreate(r) /\ result[r].ok) =>
            /\ result[r].val.id > 0
            /\ calls[r][2].id = U64(0, result[r].val.id)

Rows(table) == {table[i] : i \in 1..Len(table)}

\* C15: a stored row stays stored and unchanged: every step keeps every row
\* of the table with the same id, name, email and birth date.
C15_RowsPermanent ==
    [][Rows(users) \subseteq Rows(users')]_vars

\* C15 witness: the first row is still stored after a second insert and a
\* completed fetch.
C15_Witness ==
    \E r \in Reqs :
        /\ Len(users) = 2 /\ users[1].id = U64(0, 1)
        /\ DoneGet(r) /\ Len(calls[r]) = 1

\* C16: when creates are served one at a time, the existence check alone
\* keeps emails unique: two rows with the same email are the same row.
C16_SerialEmailsUnique ==
    \A i, j \in 1..Len(users) :
        users[i].email = users[j].email => i = j

\* C16 witness: two rows are stored and a create with a stored email was
\* refused by the existence check.
C16_Witness ==
    \E r \in Reqs :
        /\ Len(users) = 2
        /\ DoneCreate(r) /\ FailedWith(r, "BusinessError")

\* C17: a create that violates a field rule issues no storage call and ends
\* in ValidationError, also when its email is stored; a fetch with id <= 0
\* issues no storage call.
C17_ValidationBeforeGateway ==
    \A r \in Reqs :
        /\ (req[r].op = "create" /\ ~RulesPass(req[r].user, req[r].today)) =>
               /\ calls[r] = <<>>
               /\ pc[r] = "done"
               /\ FailedWith(r, "ValidationError")
        /\ (req[r].op = "get" /\ req[r].id <= 0) => calls[r] = <<>>

\* C17 witness: a create with a stored email and a violated rule ended in
\* ValidationError, and a fetch of id -5 ended too.
C17_Witness ==
    \E r1, r2 \in Reqs :
        /\ DoneCreate(r1) /\ req[r1].held /\ FailedWith(r1, "ValidationError")
        /\ DoneGet(r2) /\ req[r2].id = -5

\* C18: no storage call is issued twice: a create issues at most the email
\* lookup and then, only after it reported absence, the insert; a fetch
\* issues at most the id lookup.
C18_NoRetry ==
    \A r \in Reqs :
        /\ req[r].op = "create" =>
               /\ CallOps(r) \in {<<>>, <<"get_by_email">>,
                                  <<"get_by_email", "create_user">>}
               /\ Len(calls[r]) = 2 => calls[r][1].out = "absent"
        /\ req[r].op = "get" => CallOps(r) \in {<<>>, <<"get_user">>}
        /\ req[r].op = "none" => calls[r] = <<>>

\* C18 witness: a create whose insert failed ended after exactly one lookup
\* and one insert.
C18_Witness ==
    \E r \in Reqs :
        /\ DoneCreate(r) /\ GatewayFailed(r)
        /\ CallOps(r) = <<"get_by_email", "create_user">>

\* C19: a pending fetch of a stored id reads the same record whatever other
\* requests do in between, and two fetches of one id that both succeed
\* return the same record.
C19_FetchIndependent ==
    [][/\ \A r \in Reqs :
             (/\ pc[r] = "get_fetch" /\ pc'[r] = "get_fetch"
              /\ IdHeld(req[r].id)) =>
                 FindById(users', req[r].id) = FindById(users, req[r].id)
       /\ \A r1, r2 \in Reqs :
             (/\ pc'[r1] = "done" /\ pc'[r2] = "done"
              /\ req'[r1].op = "get" /\ req'[r2].op = "get"
              /\ req'[r1].id = req'[r2].id
              /\ result'[r1].ok /\ result'[r2].ok) =>
                 result'[r1].val = result'[r2].val]_vars

\* C19 witness: a fetch of id 1 succeeded after a second row was inserted
\* while another fetch was pending.
C19_Witness ==
    \E r1, r2 \in Reqs :
        /\ DoneGet(r1) /\ result[r1].ok /\ req[r1].id = 1
        /\ Len(users) = 2
        /\ pc[r2] = "get_fetch" /\ req[r2].id = 1

DomainKinds == {"ValidationError", "BusinessError", "NotFoundError"}

\* C20: every storage call returns a record, absence or an InternalError,
\* never one of the three domain kinds; so a request that ends in
\* ValidationError, BusinessError or NotFoundError got no error from
\* storage.
C20_DomainErrorsFromService ==
    \A r \in Reqs :
        /\ \A i \in 1..Len(calls[r]) :
               ~calls[r][i].ret.ok => calls[r][i].ret.err.kind = "InternalError"
        /\ (pc[r] = "done" /\ ~result[r].ok /\ result[r].err.kind \in DomainKinds) =>
               \A i \in 1..Len(calls[r]) : calls[r][i].ret.ok

\* C20 witness: a create ended in BusinessError after a lookup that returned
\* a row, and a fetch ended in NotFoundError after a lookup that returned
\* absence.
C20_Witness ==
    \E r1, r2 \in Reqs :
        /\ DoneCreate(r1) /\ FailedWith(r1, "BusinessError")
        /\ Len(calls[r1]) = 1 /\ calls[r1][1].ret = Ok(Some(calls[r1][1].ret.val.val))
        /\ DoneGet(r2) /\ FailedWith(r2, "NotFoundError")
        /\ Len(calls[r2]) = 1 /\ calls[r2][1].ret = Ok(None)

\* request r gets its outcome in this step
Completes(r) == pc[r] # "done" /\ pc'[r] = "done"

\* C21: the table changes only by the insert of a create that succeeds: the
\* step in which a create gets its Ok result appends exactly one row and
\* keeps the others; the step in which a create gets ValidationError or
\* BusinessError, and every step of a fetch, leaves the table as it was; and
\* no other step changes the table.
C21_OnlyInsertChangesStorage ==
    [][/\ \A r \in Reqs :
             Completes(r) =>
                 /\ (req'[r].op = "create" /\ result'[r].ok) =>
                        /\ Len(users') = Len(users) + 1
                        /\ SubSeq(users', 1, Len(users)) = users
                        /\ Cardinality(Rows(users') \ Rows(users)) = 1
                 /\ (req'[r].op = "create" /\ ~result'[r].ok
                     /\ result'[r].err.kind \in {"ValidationError", "BusinessError"}) =>
                        users' = users
                 /\ req'[r].op = "get" => users' = users
       /\ \A r \in Reqs :
             (pc[r] = "get_fetch" \/ pc'[r] = "get_fetch") /\ pc'[r] # pc[r] =>
                 users' = users
       /\ users' # users =>
             \E r \in Reqs :
                 Completes(r) /\ req'[r].op = "create" /\ result'[r].ok]_vars

\* C21 witness: a create succeeded and added the second row while the other
\* request, a create with that email, was refused with BusinessError and
\* added none.
C21_Witness ==
    \E r1, r2 \in Reqs :
        /\ DoneCreate(r1) /\ result[r1].ok
        /\ Cardinality(calls[r1][2].prior) = 1 /\ Len(users) = 2
        /\ DoneCreate(r2) /\ FailedWith(r2, "BusinessError")
        /\ req[r2].user.email = req[r1].user.email

Pending(r) == pc[r] \in {"create_lookup", "create_insert", "get_fetch"}
IsUser(v) == DOMAIN v = {"id", "name", "email", "birth_date"}

\* the outcome of a finished request: a User answered with 200, or one error
\* of the four kinds, answered with that kind's status where the conversion
\* to a response has a value, never a User after a failed storage call
OneOutcome(r) ==
    /\ result[r].ok =>
           /\ IsUser(result[r].val)
           /\ resp[r] = RespondJson(result[r].val)
           /\ ~GatewayFailed(r)
    /\ ~result[r].ok =>
           /\ result[r].err.kind \in ErrorKinds
           /\ DOMAIN result[r] = {"ok", "err"}
           /\ Converts(result[r].err) =>
                  resp[r].status = StatusOfKind(result[r].err.kind)
    /\ GatewayFailed(r) => FailedWith(r, "InternalError")

\* C22: when every storage call returns, every request that was taken
\* completes, and a completed request has exactly one outcome: a User or one
\* error of the four kinds; before completion it has none.
C22_CompletesWithOneOutcome ==
    /\ \A r \in Reqs : Pending(r) ~> (pc[r] = "done")
    /\ [](\A r \in Reqs :
            /\ pc[r] = "done" => OneOutcome(r)
            /\ pc[r] # "done" => result[r] = NoResult /\ resp[r] = NoResp
            /\ pc[r] # "panicked"
            /\ req[r].op # "none" => Pending(r) \/ pc[r] = "done")

\* C22 witness: a create that went through both storage calls completed with
\* a User, and a fetch whose lookup failed completed with InternalError.
C22_Witness ==
    \E r1, r2 \in Reqs :
        /\ DoneCreate(r1) /\ Len(calls[r1]) = 2 /\ result[r1].ok
        /\ DoneGet(r2) /\ GatewayFailed(r2) /\ FailedWith(r2, "InternalError")
====
